---------------------------- MODULE Spec2Model ----------------------------
(***************************************************************************)
(* A model of via::comms::server (src/via/comms/server.hpp): the two       *)
(* acceptors, the pending connection (next_connection_), the set of        *)
(* connections (connections_), the configuration and the handlers.         *)
(*                                                                         *)
(* A connection (the Transport) is identified by the order of its          *)
(* creation: 1, 2, ...; 0 is the empty shared_ptr.  What the server does   *)
(* to a connection (create, start) is recorded in conn[t].  The io_service *)
(* is modelled by the set of outstanding async_accept operations and the   *)
(* set of completions whose handler has not run yet.  Every handler runs   *)
(* to completion in one step (one io_service thread).                      *)
(***************************************************************************)
EXTENDS Naturals, FiniteSets, Sequences, TLC

\* Bounds of the model.
MaxConn == 3
MaxCalls == 3
MaxSets == 1
MaxQueued == 1

\* SocketAdaptor::DEFAULT_RX_BUFFER_SIZE, server.hpp line 194.
DEFAULT_RX_BUFFER_SIZE == 8192

\* The values the setters are called with.
RxValues == {DEFAULT_RX_BUFFER_SIZE, 64}
TimeoutValues == {0, 500}

\* boost::system::error_code values of an accept completion.
success == "success"
operation_aborted == "operation_aborted"
genuine_error == "error"

Results == {success, operation_aborted, genuine_error}

\* Events a connection signals; the server treats every event other than
\* DISCONNECTED as it treats RECEIVED.
RECEIVED == "RECEIVED"
DISCONNECTED == "DISCONNECTED"
Events == {RECEIVED, DISCONNECTED}

Ids == 1..MaxConn

VARIABLES
  acceptor_v6_,      \* "closed", "open" (opened, not listening) or "listening"
  acceptor_v4_,
  next_connection_,  \* the pending connection, 0 when empty
  connections_,      \* the set of connections
  rx_buffer_size_,
  timeout_,
  no_delay_,
  keep_alive_,
  created,           \* the number of connections created so far
  conn,              \* what each connection was created and started with
  held,              \* connections an in-flight operation of their own holds
  owners,            \* who holds a shared_ptr to each connection
  accepts,           \* outstanding async_accept operations
  completions,       \* handlers of accepts queued by close(): how many of each result
  promoted,          \* history: connections accept_handler inserted
  disconnected,      \* history: connections event_handler got DISCONNECTED for
  cleared,           \* history: connections close() dropped from the set
  closes,            \* history: number of close() calls
  mutating,          \* handlers a worker thread is executing, between the first
                     \* and the last access to connections_ and next_connection_
  destroyed,         \* the destructor of the server has run
  ncalls,            \* number of member functions the owner has called
  nsets,             \* number of those that were setters
  op,                \* the member function of the server that ran last
  calls              \* the callbacks the last operation invoked, in order

config == <<rx_buffer_size_, timeout_, no_delay_, keep_alive_>>
server == <<acceptor_v6_, acceptor_v4_, next_connection_, connections_>>
io == <<accepts, completions>>
history == <<promoted, disconnected, cleared, closes>>
state == <<server, config, created, conn, held, owners, io, history, ncalls, nsets, op, calls>>
\* What one thread calling the member functions of a living server and
\* running its io_service leaves as it is.
beyond == <<mutating, destroyed>>
vars == <<state, beyond>>

\* A connection that does not exist (yet).
NoConnection == [rx |-> 0, started |-> <<>>, sock |-> "none", cfg0 |-> <<>>]

\* acceptor.is_open()
is_open(acceptor) == acceptor # "closed"

\* The options in effect.
options == <<no_delay_, keep_alive_, timeout_>>

\* start(...) with the options in effect when the pending connection was created.
StartArgs_at_creation == conn[next_connection_].cfg0

\* The arguments of next_connection_->start(...), server.hpp line 117.
StartArgs == options

\* connection_type::create(io_service_, event_handler, error_handler,
\* rx_buffer_size_): a connection with an unconnected socket.  cfg0 keeps
\* the options in effect at its creation (history).
create(rx) == [rx |-> rx, started |-> <<>>, sock |-> "unbound", cfg0 |-> options]

\* A connection lives while a shared_ptr to it exists: next_connection_,
\* connections_, or an in-flight operation of its own.
Alive(t) == t # 0 /\ (t = next_connection_ \/ t \in connections_ \/ t \in held)

\* holder.reset() or holder.clear(): the holder gives up every shared_ptr it
\* has; holder = ptr or holder.insert(ptr): it holds one to connection t.
release(own, holder) == [t \in Ids |-> own[t] \ {holder}]
acquire(own, holder, t) == [own EXCEPT ![t] = @ \cup {holder}]

Op(name, what, t, flags) == [name |-> name, what |-> what, t |-> t, flags |-> flags]
Call(cb, what, t) == [cb |-> cb, what |-> what, t |-> t]

\* What both constructors initialise, server.hpp lines 186-197 and 211-221.
members_initialised(ctor) ==
  /\ acceptor_v6_ = "closed"
  /\ acceptor_v4_ = "closed"
  /\ next_connection_ = 0
  /\ connections_ = {}
  /\ op = Op("server", ctor, 0, {})
  /\ timeout_ = 0
  /\ no_delay_ = FALSE
  /\ keep_alive_ = FALSE
  /\ created = 0
  /\ conn = [t \in Ids |-> NoConnection]
  /\ held = {}
  /\ mutating = {}
  /\ destroyed = FALSE
  /\ owners = [t \in Ids |-> {}]
  /\ accepts = {}
  /\ completions = [e \in Results |-> 0]
  /\ promoted = {}
  /\ disconnected = {}
  /\ cleared = {}
  /\ closes = 0
  /\ ncalls = 0
  /\ nsets = 0
  /\ calls = <<>>

\* server(io_service), server.hpp lines 185-198.
Init ==
  /\ rx_buffer_size_ = DEFAULT_RX_BUFFER_SIZE
  /\ members_initialised("")

\* The values a size_t that was never initialised can hold.
Indeterminate == RxValues \cup {0}

\* server(io_service, event_callback, error_callback), server.hpp lines
\* 208-222: rx_buffer_size_ is not in the initialiser list.
Init_with_callbacks ==
  /\ rx_buffer_size_ \in Indeterminate
  /\ members_initialised("callbacks")

-----------------------------------------------------------------------------
\* acceptor.async_accept(next_connection_->socket(), accept_handler), issued
\* only on an open acceptor (server.hpp lines 165-173).
async_accept(acceptor, which, t) ==
  IF is_open(acceptor) THEN {[acc |-> which, sock |-> t]} ELSE {}

\* start_accept() that forgets the IPv4 acceptor.
start_accept_v6_only(trans, own, outstanding, v6, v4) ==
  /\ created < MaxConn
  /\ owners' = acquire(release(own, "next_connection_"), "next_connection_", created + 1)
  /\ created' = created + 1
  /\ next_connection_' = created + 1
  /\ conn' = [trans EXCEPT ![created + 1] = create(rx_buffer_size_)]
  /\ accepts' = outstanding \cup async_accept(v6, "v6", created + 1)

\* start_accept() that creates a connection but keeps the pending one when
\* there is one.
start_accept_keeps_pending(trans, own, outstanding, v6, v4) ==
  LET t == IF next_connection_ = 0 THEN created + 1 ELSE next_connection_
  IN /\ created < MaxConn
     /\ owners' = acquire(own, "next_connection_", t)
     /\ created' = created + 1
     /\ next_connection_' = t
     /\ conn' = [trans EXCEPT ![created + 1] = create(rx_buffer_size_)]
     /\ accepts' = outstanding \cup async_accept(v6, "v6", t)
                               \cup async_accept(v4, "v4", t)

\* start_accept() that creates a connection only when an acceptor is open.
start_accept_when_open(trans, own, outstanding, v6, v4) ==
  IF is_open(v6) \/ is_open(v4)
    THEN /\ created < MaxConn
         /\ owners' = acquire(release(own, "next_connection_"), "next_connection_",
                              created + 1)
         /\ created' = created + 1
         /\ next_connection_' = created + 1
         /\ conn' = [trans EXCEPT ![created + 1] = create(rx_buffer_size_)]
         /\ accepts' = outstanding \cup async_accept(v6, "v6", created + 1)
                                   \cup async_accept(v4, "v4", created + 1)
    ELSE /\ owners' = own
         /\ conn' = trans
         /\ accepts' = outstanding
         /\ UNCHANGED <<created, next_connection_>>

\* start_accept(), on the connections trans, their holders own, the
\* outstanding accepts outstanding and the acceptors v6 and v4 its caller
\* leaves.  The assignment to next_connection_ releases the connection that
\* was pending.
start_accept(trans, own, outstanding, v6, v4) ==
  /\ created < MaxConn
  /\ owners' = acquire(release(own, "next_connection_"), "next_connection_", created + 1)
  /\ created' = created + 1
  /\ next_connection_' = created + 1
  /\ conn' = [trans EXCEPT ![created + 1] = create(rx_buffer_size_)]
  /\ accepts' = outstanding \cup async_accept(v6, "v6", created + 1)
                            \cup async_accept(v4, "v4", created + 1)

\* acceptor.open(protocol, ec) and, when it succeeds, set_option, bind and
\* listen (server.hpp lines 264-273 and 281-288).  open fails with ec set when
\* the acceptor is already open or the protocol is not available; bind and
\* listen are the overloads without an error_code: a failure throws and leaves
\* the acceptor open.
open_acceptor(acceptor, attempt, open_ok, bind_ok) ==
  IF attempt /\ ~is_open(acceptor) /\ open_ok
    THEN (IF bind_ok THEN "listening" ELSE "open")
    ELSE acceptor

\* An IPv4 acceptor opened only when the IPv6 acceptor is not open.
attempt_v4_when_closed(v6, ipv6_only) == ~is_open(v6)

\* Whether the IPv4 acceptor is opened too: "if (!acceptor_v6_.is_open() ||
\* ipv6_only)", server.hpp line 279.
attempt_v4(v6, ipv6_only) == ~is_open(v6) \/ ipv6_only

\* accept_connections(port, ipv4_only).  open6, dual, bind6, open4 and bind4
\* are what the platform answers: whether each open succeeds, whether the IPv6
\* socket takes v6_only(false), whether bind and listen succeed.
accept_connections(ipv4_only, open6, dual, bind6, open4, bind4) ==
  LET att6 == ~ipv4_only
      opened6 == att6 /\ ~is_open(acceptor_v6_) /\ open6
      \* ec after the IPv6 block: open's, then set_option(ipv6_only, ec)'s
      ec6 == IF ~att6 \/ (opened6 /\ dual) THEN success ELSE genuine_error
      \* get_option(ipv6_only): the option stays false unless queried
      ipv6_only == opened6 /\ ~dual
      v6 == open_acceptor(acceptor_v6_, att6, open6, bind6)
      threw6 == opened6 /\ ~bind6
      att4 == ~threw6 /\ attempt_v4(v6, ipv6_only)
      opened4 == att4 /\ ~is_open(acceptor_v4_) /\ open4
      ec == IF att4 THEN (IF opened4 THEN success ELSE genuine_error) ELSE ec6
      v4 == open_acceptor(acceptor_v4_, att4, open4, bind4)
      threw == threw6 \/ (opened4 /\ ~bind4)
      flags == (IF ipv4_only THEN {"ipv4_only"} ELSE {})
                 \cup (IF att6 THEN {"att6"} ELSE {})
                 \cup (IF att4 THEN {"att4"} ELSE {})
                 \cup (IF ipv6_only THEN {"ipv6_only"} ELSE {})
                 \cup (IF att6 /\ ~opened6 THEN {"open6_failed"} ELSE {})
                 \cup (IF att4 /\ ~opened4 THEN {"open4_failed"} ELSE {})
                 \cup (IF threw6 THEN {"bind6_failed"} ELSE {})
                 \cup (IF opened4 /\ ~bind4 THEN {"bind4_failed"} ELSE {})
  IN /\ ncalls < MaxCalls
     /\ ncalls' = ncalls + 1
     /\ acceptor_v6_' = v6
     /\ acceptor_v4_' = v4
     /\ IF threw
          THEN UNCHANGED <<next_connection_, created, conn, owners, accepts>>
          ELSE start_accept(conn, owners, accepts, v6, v4)
     /\ op' = Op("accept_connections", IF threw THEN "threw" ELSE ec, 0, flags)
     /\ calls' = <<>>
     /\ UNCHANGED <<connections_, config, held, completions, history, nsets>>

\* A guard that does not look at the error.
accept_guard_open_only(v6, v4, error) == is_open(v6) \/ is_open(v4)

\* No guard.
accept_guard_always(v6, v4, error) == TRUE

\* The guard of accept_handler, server.hpp lines 110-111.
accept_guard(v6, v4, error) ==
  (is_open(v6) \/ is_open(v4)) /\ error # operation_aborted

\* An insert that also puts back the connection created before t.
insert_with_previous(connections, t) ==
  connections \cup {t} \cup (IF t > 1 THEN {t - 1} ELSE {})

\* connections_.insert(next_connection_), server.hpp line 118.
insert(connections, t) == connections \cup {t}

\* accept_handler(error), with the connections trans and the outstanding
\* accepts outstanding the io_service leaves when it calls the handler.
accept_handler(error, trans, outstanding) ==
  IF accept_guard(acceptor_v6_, acceptor_v4_, error)
    THEN IF error # success
           THEN /\ calls' = <<Call("error", error, next_connection_)>>
                /\ start_accept(trans, owners, outstanding, acceptor_v6_, acceptor_v4_)
                /\ UNCHANGED <<connections_, promoted>>
           ELSE \* next_connection_->start(...) on an empty pointer ends the
                \* program: there is no step
                /\ next_connection_ # 0
                /\ calls' = <<>>
                /\ connections_' = insert(connections_, next_connection_)
                /\ promoted' = promoted \cup {next_connection_}
                /\ start_accept([trans EXCEPT ![next_connection_].started = StartArgs],
                                release(acquire(owners, "connections_", next_connection_),
                                        "next_connection_"),
                                outstanding, acceptor_v6_, acceptor_v4_)
    ELSE /\ calls' = <<>>
         /\ accepts' = outstanding
         /\ conn' = trans
         /\ UNCHANGED <<next_connection_, connections_, created, owners, promoted>>

\* The acceptor an accept was issued on.
acceptor_of(o) == IF o.acc = "v6" THEN acceptor_v6_ ELSE acceptor_v4_

\* The results an outstanding accept can complete with.  An acceptor that is
\* not listening only fails.  The operation holds a reference to the socket of
\* the connection it was issued against: when that connection is gone the
\* reference dangles and the result is arbitrary; when its socket is already
\* connected the accept fails.
results(o) ==
  {genuine_error} \cup
    (IF acceptor_of(o) = "listening" /\ (Alive(o.sock) => conn[o.sock].sock = "unbound")
       THEN {success} ELSE {})

\* The connections after accept o completed with result: a success connects
\* the socket of a living connection.
completed(o, result) ==
  IF result = success /\ Alive(o.sock)
    THEN [conn EXCEPT ![o.sock].sock = "connected"]
    ELSE conn

\* An outstanding accept completes and the io_service runs its handler.
accept_completes(o, result) ==
  /\ o \in accepts
  /\ result \in results(o)
  /\ accept_handler(result, completed(o, result), accepts \ {o})
  /\ op' = Op("accept_handler", result, o.sock, {o.acc})
  /\ UNCHANGED <<acceptor_v6_, acceptor_v4_, config, held, completions, disconnected,
                 cleared, closes, ncalls, nsets>>

\* The io_service runs the handler of an accept that close() found
\* outstanding or completed.
queued_handler_runs(error) ==
  /\ completions[error] > 0
  /\ completions' = [completions EXCEPT ![error] = @ - 1]
  /\ accept_handler(error, conn, accepts)
  /\ op' = Op("accept_handler", error, 0, {"queued"})
  /\ UNCHANGED <<acceptor_v6_, acceptor_v4_, config, held, disconnected, cleared,
                 closes, ncalls, nsets>>

\* An erase that leaves the connection in the set.
erase_nothing(connections, t) == connections

\* An erase that empties the set.
erase_all(connections, t) == {}

\* connections_.find(connection) and connections_.erase(iter), server.hpp
\* lines 140-142.
erase(connections, t) == connections \ {t}

\* An event_handler that keeps the shared_ptr ptr.lock() gave it.
event_owners_kept(own, t) ==
  [own EXCEPT ![t] = (@ \ {"connections_"}) \cup {"event_handler"}]

\* The holders after the DISCONNECTED branch of event_handler, server.hpp
\* lines 137-143: ptr.lock() gives a local shared_ptr, erase drops the one of
\* connections_, and the local one is released at the end of the block.
event_owners(own, t) ==
  [own EXCEPT ![t] = ((@ \cup {"event_handler"}) \ {"connections_"}) \ {"event_handler"}]

\* event_handler(event, ptr), signalled by a connection that was started; ptr
\* is a weak_ptr, ptr.lock() gives the connection only while it is alive.
event_handler(event, t) ==
  /\ t \in Ids
  /\ conn[t].started # <<>>
  /\ calls' = <<Call("event", event, t)>>
  /\ connections_' = IF event = DISCONNECTED /\ Alive(t)
                       THEN erase(connections_, t)
                       ELSE connections_
  /\ disconnected' = IF event = DISCONNECTED
                       THEN disconnected \cup {t}
                       ELSE disconnected
  /\ owners' = IF event = DISCONNECTED /\ Alive(t)
                 THEN event_owners(owners, t)
                 ELSE owners
  /\ op' = Op("event_handler", event, t, {})
  /\ held' = held
  /\ UNCHANGED <<acceptor_v6_, acceptor_v4_, next_connection_, config, created, conn,
                 io, promoted, cleared, closes, ncalls, nsets>>

\* An error_handler that takes the error for a disconnection.
error_connections_erases(connections, t) == connections \ {t}

\* What error_handler does to the set of connections: nothing.
error_connections(connections, t) == connections

\* error_handler(error, connection), server.hpp lines 152-154.
error_handler(error, t) ==
  /\ t \in Ids
  /\ conn[t].started # <<>>
  /\ calls' = <<Call("error", error, t)>>
  /\ connections_' = error_connections(connections_, t)
  /\ op' = Op("error_handler", error, t, {})
  /\ UNCHANGED <<acceptor_v6_, acceptor_v4_, next_connection_, config, created, conn,
                 held, owners, io, history, ncalls, nsets>>

\* A setter that applies the options to the connections already started.
setter_connections_restart(trans) ==
  [t \in Ids |-> IF trans[t].started # <<>>
                   THEN [trans[t] EXCEPT !.started = <<~no_delay_, keep_alive_, timeout_>>]
                   ELSE trans[t]]

\* What a setter does to the connections that exist: nothing.
setter_connections(trans) == trans

\* The four setters, server.hpp lines 336-358.
setter(name) ==
  /\ ncalls < MaxCalls
  /\ nsets < MaxSets
  /\ ncalls' = ncalls + 1
  /\ nsets' = nsets + 1
  /\ op' = Op(name, "", 0, {})
  /\ calls' = <<>>
  /\ conn' = setter_connections(conn)
  /\ UNCHANGED <<server, created, held, owners, io, history>>

set_rx_buffer_size(size) ==
  /\ setter("set_rx_buffer_size")
  /\ rx_buffer_size_' = size
  /\ UNCHANGED <<timeout_, no_delay_, keep_alive_>>

set_no_delay(enable) ==
  /\ setter("set_no_delay")
  /\ no_delay_' = enable
  /\ UNCHANGED <<rx_buffer_size_, timeout_, keep_alive_>>

set_keep_alive(enable) ==
  /\ setter("set_keep_alive")
  /\ keep_alive_' = enable
  /\ UNCHANGED <<rx_buffer_size_, timeout_, no_delay_>>

set_timeout(timeout) ==
  /\ setter("set_timeout")
  /\ timeout_' = timeout
  /\ UNCHANGED <<rx_buffer_size_, no_delay_, keep_alive_>>

\* acceptor.close(): the acceptor is closed, also when it was not open.
close_acceptor(acceptor) == "closed"

\* A close() that keeps the connections.
clear_nothing(connections) == connections

\* connections_.clear(), server.hpp line 367.
clear(connections) == {}

\* What the handlers of the accepts in ops are queued with when close()
\* finds them: operation_aborted for an accept it cancels, its result for an
\* accept that completed before close() and whose handler has not run yet (at
\* most MaxQueued of them).
cancelled(ops) ==
  {f \in [ops -> Results] :
     /\ \A o \in ops : f[o] \in results(o) \cup {operation_aborted}
     /\ Cardinality({o \in ops : f[o] # operation_aborted}) <= MaxQueued
     /\ \A o1, o2 \in ops :
          f[o1] = success /\ f[o2] = success /\ o1.sock = o2.sock => o1 = o2}

\* close(): closing an acceptor cancels its outstanding accepts.
close ==
  /\ ncalls < MaxCalls
  /\ ncalls' = ncalls + 1
  /\ acceptor_v6_' = close_acceptor(acceptor_v6_)
  /\ acceptor_v4_' = close_acceptor(acceptor_v4_)
  /\ accepts' = {o \in accepts :
                   is_open(IF o.acc = "v6" THEN acceptor_v6_' ELSE acceptor_v4_')}
  /\ \E f \in cancelled(accepts \ accepts') :
       completions' = [e \in Results |->
                         completions[e] + Cardinality({o \in DOMAIN f : f[o] = e})]
  /\ next_connection_' = 0
  /\ connections_' = clear(connections_)
  /\ owners' = release(release(owners, "next_connection_"), "connections_")
  /\ cleared' = cleared \cup connections_
  /\ closes' = closes + 1
  /\ op' = Op("close", "", 0, {})
  /\ calls' = <<>>
  /\ UNCHANGED <<config, created, conn, held, promoted, disconnected, nsets>>

\* An operation of a started connection (a read, a write) begins: it holds a
\* shared_ptr to the connection until it completes.
operation_begins(t) ==
  /\ t \in Ids
  /\ conn[t].started # <<>>
  /\ Alive(t)
  /\ t \notin held
  /\ held' = held \cup {t}
  /\ owners' = acquire(owners, "operation", t)
  /\ UNCHANGED <<server, config, created, conn, io, history, ncalls, nsets, op, calls>>

operation_completes(t) ==
  /\ t \in held
  /\ held' = held \ {t}
  /\ owners' = [owners EXCEPT ![t] = @ \ {"operation"}]
  /\ UNCHANGED <<server, config, created, conn, io, history, ncalls, nsets, op, calls>>

\* One thread runs the io_service and calls the member functions: every
\* handler runs from its first statement to its last in one step.
Next ==
  \/ \E ipv4_only, open6, dual, bind6, open4, bind4 \in BOOLEAN :
       accept_connections(ipv4_only, open6, dual, bind6, open4, bind4)
         /\ UNCHANGED beyond
  \/ \E o \in accepts, result \in {success, genuine_error} :
       accept_completes(o, result) /\ UNCHANGED beyond
  \/ \E error \in Results : queued_handler_runs(error) /\ UNCHANGED beyond
  \/ \E event \in Events, t \in Ids : event_handler(event, t) /\ UNCHANGED beyond
  \/ \E t \in Ids : error_handler(genuine_error, t) /\ UNCHANGED beyond
  \/ \E size \in RxValues : set_rx_buffer_size(size) /\ UNCHANGED beyond
  \/ \E enable \in BOOLEAN : set_no_delay(enable) /\ UNCHANGED beyond
  \/ \E enable \in BOOLEAN : set_keep_alive(enable) /\ UNCHANGED beyond
  \/ \E timeout \in TimeoutValues : set_timeout(timeout) /\ UNCHANGED beyond
  \/ close /\ UNCHANGED beyond
  \/ \E t \in Ids : operation_begins(t) /\ UNCHANGED beyond
  \/ \E t \in Ids : operation_completes(t) /\ UNCHANGED beyond

-----------------------------------------------------------------------------
\* io_service::run() called by Workers threads.  The handlers are bound to the
\* server itself (server.hpp lines 161-168), not wrapped in a strand, and no
\* member function takes a lock: a thread that enters a handler does not wait
\* for a thread that is inside another.
Workers == 2

\* A handler a thread executes: accept_handler for a completion with what,
\* event_handler for a DISCONNECTED of connection t, or close().
Mutation(by, what, t) == [by |-> by, what |-> what, t |-> t, raced |-> FALSE]

\* The handlers a thread can enter.
Mutations ==
  {Mutation("accept_handler", result, o.sock) :
     o \in {x \in accepts : next_connection_ # 0 /\ created < MaxConn},
     result \in {success, genuine_error}}
    \cup {Mutation("event_handler", DISCONNECTED, t) :
            t \in {x \in Ids : conn[x].started # <<>> /\ Alive(x)}}
    \cup {Mutation("close", "", 0) : x \in {y \in {0} : ncalls < MaxCalls}}

\* A thread enters a handler.  The handlers already entered now overlap it.
enters(m) ==
  /\ m \in Mutations
  /\ Cardinality(mutating) < Workers
  /\ \A x \in mutating : <<x.by, x.what, x.t>> # <<m.by, m.what, m.t>>
  /\ m.by = "accept_handler" =>
       \E o \in accepts : o.sock = m.t /\ m.what \in results(o)
  /\ mutating' = {[x EXCEPT !.raced = TRUE] : x \in mutating}
                   \cup {[m EXCEPT !.raced = mutating # {}]}
  /\ UNCHANGED <<state, destroyed>>

\* A thread leaves a handler no other thread overlapped: the handler did what
\* it does when it runs alone.
leaves(m) ==
  /\ m \in mutating
  /\ ~m.raced
  /\ mutating' = mutating \ {m}
  /\ CASE m.by = "accept_handler" ->
            \E o \in accepts : o.sock = m.t /\ accept_completes(o, m.what)
       [] m.by = "event_handler" -> event_handler(m.what, m.t)
       [] m.by = "close" -> close
  /\ UNCHANGED destroyed

\* A thread leaves a handler another thread overlapped.  Two unsynchronised
\* accesses to the std::set or to the shared_ptr, one of them a write, are a
\* data race: what connections_ and next_connection_ hold afterwards is
\* anything.
raced_leaves(m) ==
  /\ m \in mutating
  /\ m.raced
  /\ mutating' = mutating \ {m}
  /\ connections_' \in SUBSET (1..created)
  /\ next_connection_' \in {0, next_connection_}
  /\ op' = Op(m.by, m.what, m.t, {"raced"})
  /\ calls' = <<>>
  /\ UNCHANGED <<acceptor_v6_, acceptor_v4_, config, created, conn, held, owners, io,
                 history, ncalls, nsets, destroyed>>

\* The owner calls accept_connections while no handler runs; the worker
\* threads run the handlers.
NextThreads ==
  \/ \E ipv4_only, open6, dual, bind6, open4, bind4 \in BOOLEAN :
       /\ mutating = {}
       /\ accept_connections(ipv4_only, open6, dual, bind6, open4, bind4)
       /\ UNCHANGED beyond
  \/ \E m \in Mutations : enters(m)
  \/ \E m \in mutating : leaves(m)
  \/ \E m \in mutating : raced_leaves(m)

SpecThreads == Init /\ [][NextThreads]_vars

-----------------------------------------------------------------------------
\* ~server(), server.hpp lines 225-226: close(), then the members are
\* destroyed.  The io_service is not the server's (server.hpp line 73): it
\* lives on with the handlers close() left queued, and a connection an
\* operation holds lives on with the event_handler and error_handler it was
\* created with; all of them are bound to the server's this (server.hpp
\* lines 161-168).
destructor ==
  /\ ~destroyed
  /\ destroyed' = TRUE
  /\ close
  /\ UNCHANGED mutating

\* A member function called on the destroyed server reads and calls destroyed
\* members: it may do nothing or reach the callback.
after_destructor(name, what, t, cb) ==
  /\ destroyed
  /\ op' = Op(name, what, t, {"destroyed"})
  /\ calls' \in {<<>>, <<Call(cb, what, t)>>}
  /\ UNCHANGED <<server, config, created, conn, held, owners, accepts, history,
                 ncalls, nsets, beyond>>

\* The io_service runs a handler close() left queued.
accept_handler_after_destructor(error) ==
  /\ completions[error] > 0
  /\ completions' = [completions EXCEPT ![error] = @ - 1]
  /\ after_destructor("accept_handler", error, 0, "error")

\* A connection an operation still holds signals an event or an error.
event_handler_after_destructor(event, t) ==
  /\ t \in held
  /\ conn[t].started # <<>>
  /\ after_destructor("event_handler", event, t, "event")
  /\ UNCHANGED completions

error_handler_after_destructor(error, t) ==
  /\ t \in held
  /\ conn[t].started # <<>>
  /\ after_destructor("error_handler", error, t, "error")
  /\ UNCHANGED completions

\* The owner calls nothing on a server it destroyed.
NextDestructor ==
  \/ ~destroyed /\ Next
  \/ destructor
  \/ \E error \in Results : accept_handler_after_destructor(error)
  \/ \E event \in Events, t \in Ids : event_handler_after_destructor(event, t)
  \/ \E t \in Ids : error_handler_after_destructor(genuine_error, t)
  \/ \E t \in Ids : destroyed /\ operation_completes(t) /\ UNCHANGED beyond

SpecDestructor == Init /\ [][NextDestructor]_vars

-----------------------------------------------------------------------------
\* Which step a transition is.  The steps of the connections' own operations
\* leave op as it is and change held.
AcceptHandlerRan == op'.name = "accept_handler" /\ <<accepts, completions>>' # <<accepts, completions>>
EventHandlerRan == op'.name = "event_handler" /\ held' = held
ErrorHandlerRan == op'.name = "error_handler" /\ held' = held
SetterRan ==
  /\ op'.name \in {"set_rx_buffer_size", "set_no_delay", "set_keep_alive", "set_timeout"}
  /\ nsets' = nsets + 1
AnyOpen == is_open(acceptor_v6_) \/ is_open(acceptor_v4_)
Queued == completions[success] + completions[operation_aborted] + completions[genuine_error]

\* C1 (as amended): a connection is in connections_ if and only if
\* accept_handler promoted it, event_handler has not got DISCONNECTED for it and
\* no close() dropped it; while close() has not been called the size of the
\* set is the number of connections promoted and not yet disconnected.
C1_RegistryIffPromotedNotGone ==
  /\ connections_ = (promoted \ disconnected) \ cleared
  /\ closes = 0 => Cardinality(connections_) = Cardinality(promoted \ disconnected)

\* C1 as stated: in every reachable state a connection is in connections_ if
\* and only if it was promoted and has not yet delivered DISCONNECTED.
C1_Original == connections_ = promoted \ disconnected

C1_Witness ==
  \E t1 \in connections_ : \E t2 \in promoted \cap disconnected : t1 # t2

\* C2: after close() the set of connections is empty, the pending connection
\* is empty and both acceptors are closed, whatever was active or outstanding
\* before, also after a second close() and on a server never opened; close()
\* can always be called.
C2_CloseEmptiesAndCloses ==
  /\ op.name = "close" =>
       /\ connections_ = {}
       /\ next_connection_ = 0
       /\ ~is_open(acceptor_v6_)
       /\ ~is_open(acceptor_v4_)
       /\ accepts = {}
  /\ ncalls < MaxCalls => ENABLED close

C2_Witness == op.name = "close" /\ closes = 2 /\ cleared # {} /\ Queued > 0

\* C3: an accept completion delivered with operation_aborted, or delivered
\* while no acceptor is open, has no effect: no callback, no new pending
\* connection, no new accept, nothing inserted.
C3_StaleCompletionIgnored ==
  [][AcceptHandlerRan /\ (op'.what = operation_aborted \/ ~AnyOpen) =>
       /\ calls' = <<>>
       /\ accepts' \subseteq accepts
       /\ UNCHANGED <<server, created, conn, promoted>>]_vars

C3_Witness ==
  /\ op.name = "accept_handler"
  /\ op.what = operation_aborted
  /\ AnyOpen
  /\ next_connection_ # 0

\* C4: an accept completion with a genuine error while an acceptor is open
\* calls the error callback exactly once, with the error and the pending
\* connection, leaves connections_ as it is and calls start_accept: a new
\* pending connection with an accept on every open acceptor.
C4_AcceptErrorReportedAndRearmed ==
  [][AcceptHandlerRan /\ op'.what = genuine_error /\ AnyOpen =>
       /\ calls' = <<Call("error", genuine_error, next_connection_)>>
       /\ connections_' = connections_
       /\ created' = created + 1
       /\ next_connection_' = created'
       /\ conn'[created'] = create(rx_buffer_size_)
       /\ is_open(acceptor_v6_) => [acc |-> "v6", sock |-> created'] \in accepts'
       /\ is_open(acceptor_v4_) => [acc |-> "v4", sock |-> created'] \in accepts'
       /\ UNCHANGED <<acceptor_v6_, acceptor_v4_>>]_vars

C4_Witness ==
  /\ op.name = "accept_handler"
  /\ op.what = genuine_error
  /\ calls # <<>>
  /\ connections_ # {}
  /\ is_open(acceptor_v6_) /\ is_open(acceptor_v4_)

\* C5: event_handler forwards every event to the event callback; DISCONNECTED
\* removes the connection from connections_ if it is there and changes
\* nothing otherwise, so a second DISCONNECTED for the same connection leaves
\* the set as the first left it.
C5_EventForwardedDisconnectErases ==
  [][EventHandlerRan =>
       /\ calls' = <<Call("event", op'.what, op'.t)>>
       /\ connections_' = IF op'.what = DISCONNECTED
                            THEN connections_ \ {op'.t}
                            ELSE connections_
       /\ (op'.t \notin connections_ \/ op = op') => connections_' = connections_
       /\ UNCHANGED <<acceptor_v6_, acceptor_v4_, next_connection_, io, conn, created>>]_vars

C5_Witness ==
  /\ op.name = "event_handler"
  /\ op.what = DISCONNECTED
  /\ op.t \in cleared \cap held

\* C6: error_handler forwards the error to the error callback and leaves
\* connections_, the pending connection and the acceptors as they are.
C6_ErrorHandlerOnlyForwards ==
  [][ErrorHandlerRan =>
       /\ calls' = <<Call("error", op'.what, op'.t)>>
       /\ UNCHANGED <<server, io, conn, created>>]_vars

C6_Witness ==
  /\ op.name = "error_handler"
  /\ op.t \in connections_
  /\ op.t \notin disconnected

\* The server after close(): no acceptor open, no pending connection, no
\* accept outstanding.
Closed == ~AnyOpen /\ next_connection_ = 0 /\ accepts = {}

\* C7 (as amended): after close() the server stays Closed until
\* accept_connections is called again; that call is not rejected and opens
\* the acceptors as on a new server.
C7_ClosedUntilReopened ==
  [][closes > 0 /\ Closed /\ ~Closed' => op'.name = "accept_connections"]_vars

\* C7 as stated: once close() has been called the server is Closed for ever.
C7_Original == closes > 0 => Closed

C7_Witness ==
  /\ closes > 0
  /\ op.name = "accept_connections"
  /\ acceptor_v4_ = "listening"
  /\ next_connection_ # 0
  /\ accepts # {}

\* C8 (as amended): a connection is created with the rx_buffer_size_ in effect
\* when start_accept creates it, and started with the no_delay_, keep_alive_
\* and timeout_ in effect when accept_handler starts it: set_no_delay,
\* set_keep_alive and set_timeout called while a connection is pending do
\* affect it, set_rx_buffer_size does not.
C8_CreatedAndStartedWithCurrent ==
  [][\A t \in Ids :
       /\ conn[t].sock = "none" /\ conn'[t].sock # "none" =>
            conn'[t].rx = rx_buffer_size_ /\ conn'[t].started = <<>>
       /\ conn[t].started = <<>> /\ conn'[t].started # <<>> =>
            /\ t = next_connection_
            /\ conn'[t].started = options
            /\ conn'[t].rx = conn[t].rx]_vars

\* C8 as stated: a connection is started with the options in effect when
\* start_accept created it.
C8_Original == \A t \in promoted : conn[t].started = conn[t].cfg0

C8_Witness ==
  \E t \in promoted : conn[t].started # conn[t].cfg0 /\ t \in connections_

\* C9: a setter changes nothing about the connections that exist, nor
\* connections_ nor the pending connection; what a connection was started
\* with never changes, and a connection accepted later is started with the
\* new values.
C9_SettersLeaveConnections ==
  [][/\ SetterRan => UNCHANGED <<server, conn, created, io>>
     /\ \A t \in Ids :
          /\ conn[t].started # <<>> => conn'[t].started = conn[t].started
          /\ conn[t].started = <<>> /\ conn'[t].started # <<>> =>
               conn'[t].started = options]_vars

C9_Witness ==
  \E t1 \in connections_ : \E t2 \in connections_ :
    /\ t1 < t2
    /\ conn[t1].started # options
    /\ conn[t2].started = options

\* C10 as stated: when bind or listen fails on an endpoint accept_connections
\* attempted, the call returns an error code; when two endpoints were
\* attempted and one failed, the other is listening with an accept issued.
C10_BindFailureReturned ==
  op.name = "accept_connections"
    /\ op.flags \cap {"bind6_failed", "bind4_failed"} # {} =>
      /\ op.what = genuine_error
      /\ "bind4_failed" \in op.flags /\ "att6" \in op.flags /\ acceptor_v6_ = "listening" =>
           \E o \in accepts : o.acc = "v6"

\* An accept_connections call that ran to its return statement.
AcceptConnectionsReturned ==
  /\ op'.name = "accept_connections"
  /\ ncalls' = ncalls + 1
  /\ op'.what # "threw"

\* C11: accept_connections attempts the IPv6 acceptor iff ipv4_only is false
\* and the IPv4 acceptor iff the IPv6 acceptor is not open or is v6-only; on
\* a server with no acceptor open, ipv4_only gives the IPv4 acceptor alone, a
\* dual-stack platform the IPv6 acceptor alone, a v6-only platform both, and
\* a platform without IPv6 the IPv4 acceptor alone.
C11_ListenersByMode ==
  [][AcceptConnectionsReturned =>
       LET f == op'.flags
           one4 == ~is_open(acceptor_v6_') /\ acceptor_v4_' = "listening"
           one6 == acceptor_v6_' = "listening" /\ ~is_open(acceptor_v4_')
           two == acceptor_v6_' = "listening" /\ acceptor_v4_' = "listening"
       IN /\ "att6" \in f <=> "ipv4_only" \notin f
          /\ "att4" \in f <=> (~is_open(acceptor_v6_') \/ "ipv6_only" \in f)
          /\ "att6" \notin f => acceptor_v6_' = acceptor_v6_
          /\ "att4" \notin f => acceptor_v4_' = acceptor_v4_
          /\ ~AnyOpen =>
               /\ "ipv4_only" \in f /\ "open4_failed" \notin f => one4
               /\ "ipv4_only" \notin f /\ "open6_failed" \notin f =>
                    IF "ipv6_only" \notin f THEN one6
                    ELSE "open4_failed" \notin f => two
               /\ "ipv4_only" \notin f /\ "open6_failed" \in f
                    /\ "open4_failed" \notin f => one4]_vars

C11_Witness ==
  /\ op.name = "accept_connections"
  /\ ncalls = 1
  /\ "ipv6_only" \in op.flags
  /\ acceptor_v6_ = "listening"
  /\ acceptor_v4_ = "listening"
  /\ Cardinality(accepts) = 2

\* The shared_ptrs the server holds to connection t.
ServerHolds(t) ==
  (IF t = next_connection_ THEN {"next_connection_"} ELSE {})
    \cup (IF t \in connections_ THEN {"connections_"} ELSE {})

\* A connection that was created and that nobody holds any more.
Destroyed(t) == t \in 1..created /\ owners[t] = {}

\* C12: the server holds a connection only through next_connection_ and
\* connections_, never through event_handler or error_handler; a connection is
\* destroyed only when next_connection_, connections_ and its in-flight
\* operations have released it; close() and the DISCONNECTED erase drop only
\* the server's shared_ptr, so a connection an operation holds survives them
\* and is destroyed when its last operation completes.
C12_OnlySlotAndRegistryOwn ==
  /\ [](\A t \in Ids :
          /\ owners[t] = ServerHolds(t) \cup (IF t \in held THEN {"operation"} ELSE {})
          /\ Alive(t) <=> owners[t] # {})
  /\ [][/\ op'.name = "close" /\ closes' = closes + 1 =>
            \A t \in held : owners'[t] = {"operation"}
        /\ EventHandlerRan \/ ErrorHandlerRan =>
            \A t \in Ids : /\ owners'[t] \subseteq owners[t]
                           /\ t \in held => owners'[t] # {}
        /\ \A t \in held \ held' : ServerHolds(t) = {} => owners'[t] = {}]_vars

C12_Witness ==
  /\ op.name = "close"
  /\ \E t \in cleared : owners[t] = {"operation"}
  /\ \E t \in cleared : Destroyed(t)

\* C13: next_connection_ holds at most one connection, and that connection
\* is not in connections_.
C13_PendingDisjointFromRegistry ==
  /\ next_connection_ \notin connections_
  /\ Cardinality({t \in Ids : "next_connection_" \in owners[t]}) <= 1
  /\ \A t \in Ids : ~({"next_connection_", "connections_"} \subseteq owners[t])

C13_Witness ==
  /\ next_connection_ # 0
  /\ connections_ # {}
  /\ disconnected # {}
  /\ op.name = "accept_handler"
  /\ op.what = success

\* C14: a connection enters connections_ at most once, only when
\* accept_handler promotes it on a successful completion; it leaves only by
\* a DISCONNECTED event for it or by close(); once out it never comes back.
C14_InsertedOnceRemovedByDisconnectOrClose ==
  [][\A t \in Ids :
       /\ t \notin connections_ /\ t \in connections_' =>
            /\ AcceptHandlerRan
            /\ op'.what = success
            /\ t = next_connection_
            /\ t \notin promoted \cup disconnected \cup cleared
       /\ t \in connections_ /\ t \notin connections_' =>
            \/ EventHandlerRan /\ op'.what = DISCONNECTED /\ op'.t = t
            \/ op'.name = "close" /\ closes' = closes + 1]_vars

C14_Witness ==
  /\ op.name = "close"
  /\ \E t1 \in (promoted \cap disconnected) \ cleared :
       \E t2 \in (promoted \cap cleared) \ disconnected : t1 < t2

\* The outstanding accepts issued on an acceptor.
AcceptsOn(which) == {o \in accepts : o.acc = which}

\* C15 as stated: once accept_connections has opened a listener and while
\* close() has not been called, every accept completion with success or a
\* genuine error is followed by a new accept on every open acceptor, so every
\* listener has an accept outstanding; after close() no accept is issued.
C15_AcceptLoopUntilClose ==
  /\ [](closes = 0 =>
          /\ acceptor_v6_ = "listening" => AcceptsOn("v6") # {}
          /\ acceptor_v4_ = "listening" => AcceptsOn("v4") # {})
  /\ [][/\ AcceptHandlerRan /\ closes = 0 /\ op'.what # operation_aborted =>
            /\ is_open(acceptor_v6_) =>
                 [acc |-> "v6", sock |-> next_connection_'] \in accepts' \ accepts
            /\ is_open(acceptor_v4_) =>
                 [acc |-> "v4", sock |-> next_connection_'] \in accepts' \ accepts
        /\ closes > 0 => accepts' \subseteq accepts]_vars

\* C16 as stated: with more than one worker thread no two of accept_handler,
\* the DISCONNECTED branch of event_handler and close() are inside their
\* accesses to connections_ and next_connection_ at the same time; an
\* accept completion racing the erase of a disconnection is not reachable.
C16_MutationsExclusive ==
  ~(\E a \in mutating : \E e \in mutating :
      a.by = "accept_handler" /\ e.by = "event_handler")

\* C17 as stated, for a server on which accept_connections was called once
\* and opened both acceptors: every outstanding accept is on the socket of
\* the pending connection, and the connection accept_handler promotes on a
\* successful completion is the one the accept was issued against.
C17_AcceptsBoundToPending ==
  ncalls = 1 /\ acceptor_v6_ = "listening" /\ acceptor_v4_ = "listening" =>
    /\ \A o \in accepts : o.sock = next_connection_
    /\ op.name = "accept_handler" /\ op.what = success => op.t \in promoted

C19_NoHandlerAfterDestructor == "destroyed" \notin op.flags

\* C20 as stated: whichever constructor built the server, until a setter is
\* called every connection start_accept creates gets the default size of the
\* receive buffer, and the timeout is 0 and no_delay and keep_alive false.
C20_ConstructorsSameDefaults ==
  nsets = 0 =>
    /\ \A t \in 1..created : conn[t].rx = DEFAULT_RX_BUFFER_SIZE
    /\ options = <<FALSE, FALSE, 0>>

\* A server built with either constructor.
SpecConstructors == (Init \/ Init_with_callbacks) /\ [][Next]_vars

Spec == Init /\ [][Next]_vars
=============================================================================
